---- MODULE Spec2Model ----
(***************************************************************************)
(* A model of the scb client: the request-partitioning optimizer, the      *)
(* batch splitter and configuration enumerator (src/scb/scb.py), the CSV   *)
(* combiner, the sequential fetch loop of get_all_data, and the asyncio    *)
(* RateLimiter (src/scripts/rate_limiter.py).                              *)
(*                                                                         *)
(* Each subsystem has its own specification over its own group of          *)
(* variables; the other groups stay at their idle values.                  *)
(***************************************************************************)
EXTENDS Integers, Sequences, FiniteSets, TLC

VARIABLES
    \* _get_request_configs(variables, limit)
    variables,            \* dict var -> list of values, as a sequence in insertion order
    limit,                \* maximum number of cells in one request
    optimal_batch_sizes,  \* result of _find_optimal_combination
    request_configs,      \* result of _generate_all_combinations
    cfgPc,                \* "start" | "returned" | "raised"
    \* _split_into_batches(values, batch_size)
    values,
    batch_size,
    batches,
    splitPc,              \* "start" | "returned"
    \* RateLimiter and the tasks using throttle()
    interval,             \* self.interval
    concurrency_limit,    \* the Semaphore's initial value
    sem_value,            \* self.semaphore._value
    sem_waiters,          \* self.semaphore._waiters: the tasks whose futures are queued
    lock_holder,          \* the task self.lock is locked by, NoTask when _locked is False
    lock_waiters,         \* self.lock._waiters: the tasks whose futures are queued
    last_request_time,    \* self.last_request_time, NoTime for None
    prev_request_time,    \* history: the stamp last_request_time replaced
    now,                  \* the event loop's clock
    pc,                   \* per task, where it stands in throttle()
    wake,                 \* per task, when its asyncio.sleep ends
    acquired,             \* history: per task, slots semaphore.acquire() gave it
    released,             \* history: per task, semaphore.release() calls it made
    arrivals,             \* history: the tasks in the order they called throttle()
    grants,               \* history: the tasks in the order they were stamped
    \* _combine_csv_strings(csv_strings)
    csv_strings,          \* the fragments, each a string (a sequence of characters)
    csv_result,           \* the returned string
    csvPc,                \* "start" | "returned"
    \* get_all_data(table_id, format, lang)
    format,               \* the format argument
    min_request_interval, \* in clock ticks
    queries,              \* the payloads of _get_queries
    data,                 \* the response texts collected so far
    fetch_last_request_time,  \* the local last_request_time
    fetch_prev_request_time,  \* history: the stamp the local last_request_time replaced
    clock,                \* time.time(), in ticks; the system clock is not set back
    fetch_result,         \* what get_all_data returned
    fetchPc,              \* "start" | "pace" | "post" | "finish" | "returned" | "raised"
    posted,               \* history: the payloads posted, in order
    outcomes              \* history: how the transport answered each post

optVars   == <<variables, limit, optimal_batch_sizes, request_configs, cfgPc>>
splitVars == <<values, batch_size, batches, splitPc>>
gateVars  == <<interval, concurrency_limit, sem_value, sem_waiters, lock_holder,
               lock_waiters, last_request_time, prev_request_time, now, pc,
               wake, acquired, released, arrivals, grants>>

csvVars   == <<csv_strings, csv_result, csvPc>>
fetchVars == <<format, min_request_interval, queries, data,
               fetch_last_request_time, fetch_prev_request_time, clock,
               fetch_result, fetchPc, posted, outcomes>>

notOpt   == <<splitVars, gateVars, csvVars, fetchVars>>
notSplit == <<optVars, gateVars, csvVars, fetchVars>>
notGate  == <<optVars, splitVars, csvVars, fetchVars>>
notCsv   == <<optVars, splitVars, gateVars, fetchVars>>
notFetch == <<optVars, splitVars, gateVars, csvVars>>

----------------------------------------------------------------------------
(* Bounds of the model *)

MaxDims == 3
MaxCount == 4
MaxLimit == 8
MaxValuesLen == 4
MaxBatchSize == 4
NumTasks == 3
MaxInterval == 2
MaxConcurrency == 2
MaxTime == 2
MaxFragments == 3
MaxFragmentLen == 1
MaxQueries == 4
MaxFetchDims == 2
MaxFetchCount == 2
MaxFetchLimit == 2
MaxDelay == 1

ValueCodes == {"a", "b"}

\* the characters fragments are written in: a letter, the delimiter, a newline
FragmentChars == {"a", ",", "\n"}

----------------------------------------------------------------------------
(* Python helpers *)

None == "None"

Min(a, b) == IF a < b THEN a ELSE b
Max(a, b) == IF a > b THEN a ELSE b

\* math.ceil(a / b) for a >= 0, b >= 1
Ceil(a, b) == (a + b - 1) \div b

\* math.prod over a list
RECURSIVE Prod(_)
Prod(s) == IF s = <<>> THEN 1 ELSE Head(s) * Prod(Tail(s))

\* values[a:b], Python slice with 0-based bounds clamped to the list
Slice(s, a, b) == SubSeq(s, a + 1, Min(b, Len(s)))

RECURSIVE Concat(_)
Concat(ss) == IF ss = <<>> THEN <<>> ELSE Head(ss) \o Concat(Tail(ss))

RECURSIVE SeqsUpTo(_, _)
SeqsUpTo(S, n) ==
    IF n = 0 THEN {<<>>}
    ELSE LET shorter == SeqsUpTo(S, n - 1)
         IN  shorter \cup {Append(s, x) : s \in shorter, x \in S}

Range(s) == {s[i] : i \in DOMAIN s}

\* itertools.product(*lists): tuples in order, the last list varying fastest
RECURSIVE IterProduct(_)
IterProduct(lists) ==
    IF lists = <<>> THEN << <<>> >>
    ELSE LET rest == IterProduct(Tail(lists))
             first == Head(lists)
         IN  Concat([i \in 1..Len(first) |->
                        [j \in 1..Len(rest) |-> <<first[i]>> \o rest[j]]])

\* A dict nbr_of_batches -> size is a sequence of <<key, value>> pairs in
\* insertion order; d[key] = value keeps the position of an existing key.
DictSet(d, k, v) ==
    IF \E i \in DOMAIN d : d[i][1] = k
    THEN [i \in DOMAIN d |-> IF d[i][1] = k THEN <<k, v>> ELSE d[i]]
    ELSE Append(d, <<k, v>>)

DictGet(d, k) == d[CHOOSE i \in DOMAIN d : d[i][1] = k][2]

DictKeys(d) == [i \in DOMAIN d |-> d[i][1]]

----------------------------------------------------------------------------
(* _get_partition_data *)

\* the range stopping one size early: range(1, min(len(values), limit))
SizeRangeLastShort(n, lim) == Min(n, lim) - 1

\* for size in range(1, min(len(values) + 1, limit + 1))
SizeRangeLast(n, lim) == Min(n + 1, lim + 1) - 1

\* the per-variable loop body: size_to_batches[ceil(len / size)] = size
RECURSIVE SizeToBatches(_, _, _, _)
SizeToBatches(n, last, size, d) ==
    IF size > last THEN d
    ELSE SizeToBatches(n, last, size + 1, DictSet(d, Ceil(n, size), size))

\* batch_size_sets: per variable, the dict nbr_of_batches -> size
batch_size_sets(vars, lim) ==
    [v \in DOMAIN vars |->
        SizeToBatches(Len(vars[v]), SizeRangeLast(Len(vars[v]), lim), 1, <<>>)]

\* number_of_batches_lists: per variable, list(size_to_batches.keys())
number_of_batches_lists(vars, lim) ==
    [v \in DOMAIN vars |-> DictKeys(batch_size_sets(vars, lim)[v])]

----------------------------------------------------------------------------
(* _find_optimal_combination *)

total_rows(vars) == Prod([v \in DOMAIN vars |-> Len(vars[v])])

lower_request_bound(vars, lim) == Ceil(total_rows(vars), lim)

\* batch_sizes_product of one combination of numbers of batches
batch_sizes_product(sets, combo) ==
    Prod([v \in DOMAIN combo |-> DictGet(sets[v], combo[v])])

\* the limit test left out of the search
WithinLimitDropped(product, lim) == TRUE

\* if batch_sizes_product <= limit
WithinLimit(product, lim) == product <= lim

\* best_combination = None, min_request_count = float("inf")
NoBest == [found |-> FALSE, combo |-> <<>>, count |-> 0]

\* request_count >= lower_request_bound and request_count < min_request_count
Improves(request_count, lower, best) ==
    /\ request_count >= lower
    /\ (~best.found \/ request_count < best.count)

\* the loop over iter_product(*number_of_batches_lists), from combination i on,
\* with its break; best holds best_combination and min_request_count
RECURSIVE SearchCombos(_, _, _, _, _, _)
SearchCombos(combos, sets, lim, lower, i, best) ==
    IF i > Len(combos) THEN best
    ELSE LET combo == combos[i]
             request_count == Prod(combo)
             kept == [found |-> TRUE, combo |-> combo, count |-> request_count]
         IN  IF /\ Improves(request_count, lower, best)
                /\ WithinLimit(batch_sizes_product(sets, combo), lim)
             THEN IF request_count = lower
                  THEN kept
                  ELSE SearchCombos(combos, sets, lim, lower, i + 1, kept)
             ELSE SearchCombos(combos, sets, lim, lower, i + 1, best)

\* The returned dict var -> batch size as [raised |-> FALSE, sizes |-> ...];
\* zip(variables.keys(), None) raises TypeError when no combination was kept.
_find_optimal_combination(vars, lim) ==
    IF lower_request_bound(vars, lim) = 1
    THEN [raised |-> FALSE, sizes |-> [v \in DOMAIN vars |-> Len(vars[v])]]
    ELSE LET sets == batch_size_sets(vars, lim)
             best == SearchCombos(IterProduct(number_of_batches_lists(vars, lim)),
                                  sets, lim, lower_request_bound(vars, lim),
                                  1, NoBest)
         IN  IF ~best.found
             THEN [raised |-> TRUE, sizes |-> <<>>]
             ELSE [raised |-> FALSE,
                   sizes |-> [v \in DOMAIN vars |-> DictGet(sets[v], best.combo[v])]]

----------------------------------------------------------------------------
(* _split_into_batches, _generate_all_combinations, _get_request_configs *)

\* a slice that runs one value into the next batch
BatchSliceOverlapping(vals, size, i) == Slice(vals, i * size, (i + 1) * size + 1)

\* values[i * batch_size : (i + 1) * batch_size]
BatchSlice(vals, size, i) == Slice(vals, i * size, (i + 1) * size)

\* floor instead of ceil: the shorter last batch is lost
SplitFloor(vals, size) ==
    [k \in 1..(Len(vals) \div size) |-> BatchSlice(vals, size, k - 1)]

_split_into_batches(vals, size) ==
    [k \in 1..Ceil(Len(vals), size) |-> BatchSlice(vals, size, k - 1)]

\* one configuration is the sequence of the batches chosen per variable
_generate_all_combinations(vars, sizes) ==
    IterProduct([v \in DOMAIN vars |-> _split_into_batches(vars[v], sizes[v])])

----------------------------------------------------------------------------
(* Specification Spec: _get_request_configs on one input *)

\* a variable with n values carries the distinct codes 1..n
DimensionSpaces ==
    UNION {[1..n -> {[j \in 1..c |-> j] : c \in 0..MaxCount}] : n \in 0..MaxDims}

SplitIdle ==
    /\ values = <<>>
    /\ batch_size = 1
    /\ batches = None
    /\ splitPc = "idle"

OptIdle ==
    /\ variables = <<>>
    /\ limit = 1
    /\ optimal_batch_sizes = None
    /\ request_configs = None
    /\ cfgPc = "idle"

OptInit ==
    /\ variables \in DimensionSpaces
    /\ limit \in 1..MaxLimit
    /\ optimal_batch_sizes = None
    /\ request_configs = None
    /\ cfgPc = "start"

GetRequestConfigs ==
    /\ cfgPc = "start"
    /\ LET opt == _find_optimal_combination(variables, limit)
       IN  IF opt.raised
           THEN /\ cfgPc' = "raised"
                /\ UNCHANGED <<optimal_batch_sizes, request_configs>>
           ELSE /\ cfgPc' = "returned"
                /\ optimal_batch_sizes' = opt.sizes
                /\ request_configs' =
                       _generate_all_combinations(variables, opt.sizes)
    /\ UNCHANGED <<variables, limit, notOpt>>

----------------------------------------------------------------------------
(* Specification SpecSplit: _split_into_batches on one input *)

SplitInit ==
    /\ values \in SeqsUpTo(ValueCodes, MaxValuesLen)
    /\ batch_size \in 1..MaxBatchSize
    /\ batches = None
    /\ splitPc = "start"

SplitIntoBatches ==
    /\ splitPc = "start"
    /\ batches' = _split_into_batches(values, batch_size)
    /\ splitPc' = "returned"
    /\ UNCHANGED <<values, batch_size, notSplit>>

----------------------------------------------------------------------------
(* RateLimiter (src/scripts/rate_limiter.py) under asyncio's cooperative       *)
(* scheduling: a task runs without interruption up to its next await that      *)
(* suspends it, so each action below is one such run.                          *)

Tasks == 1..NumTasks
NoTask == 0
NoTime == -1

\* The limiter and the tasks as one value g; the operators below are the steps
\* of the code, composed in program order within an action.
Gate ==
    [sem_value |-> sem_value, sem_waiters |-> sem_waiters,
     lock_holder |-> lock_holder, lock_waiters |-> lock_waiters,
     last_request_time |-> last_request_time,
     prev_request_time |-> prev_request_time,
     pc |-> pc, wake |-> wake, acquired |-> acquired, released |-> released,
     arrivals |-> arrivals, grants |-> grants]

SetGate(g) ==
    /\ sem_value' = g.sem_value
    /\ sem_waiters' = g.sem_waiters
    /\ lock_holder' = g.lock_holder
    /\ lock_waiters' = g.lock_waiters
    /\ last_request_time' = g.last_request_time
    /\ prev_request_time' = g.prev_request_time
    /\ pc' = g.pc
    /\ wake' = g.wake
    /\ acquired' = g.acquired
    /\ released' = g.released
    /\ arrivals' = g.arrivals
    /\ grants' = g.grants

Remove(q, t) == SelectSeq(q, LAMBDA x : x # t)

\* a semaphore that wakes its newest waiter
SemWakeUpNextNewest(g) ==
    LET waiting == SelectSeq(g.sem_waiters, LAMBDA x : g.pc[x] = "sem_wait")
    IN  IF waiting = <<>> THEN g
        ELSE [g EXCEPT !.sem_value = @ - 1,
                       !.pc[waiting[Len(waiting)]] = "sem_granted"]

\* Semaphore._wake_up_next: the first waiter whose future is not done gets the
\* slot (the value is decremented for it) and stays queued until it resumes
SemWakeUpNext(g) ==
    LET waiting == SelectSeq(g.sem_waiters, LAMBDA x : g.pc[x] = "sem_wait")
    IN  IF waiting = <<>> THEN g
        ELSE [g EXCEPT !.sem_value = @ - 1, !.pc[Head(waiting)] = "sem_granted"]

\* self.semaphore.release()
SemRelease(g, t) ==
    SemWakeUpNext([g EXCEPT !.sem_value = @ + 1, !.released[t] = @ + 1])

\* a semaphore that never reports itself locked
SemLockedNever(g) == FALSE

\* Semaphore.locked(): no free slot, or a waiter whose future is not cancelled
SemLocked(g) ==
    \/ g.sem_value = 0
    \/ \E i \in DOMAIN g.sem_waiters : g.pc[g.sem_waiters[i]] # "sem_cancelling"

\* Lock._wake_up_first: the first waiter is woken if its future is not done;
\* behind a first waiter that is woken or cancelled nobody is woken
LockWakeUpFirst(g) ==
    IF g.lock_waiters # <<>> /\ g.pc[Head(g.lock_waiters)] = "lock_wait"
    THEN [g EXCEPT !.pc[Head(g.lock_waiters)] = "lock_granted"]
    ELSE g

\* Lock.release(): _locked = False, then _wake_up_first()
LockRelease(g) == LockWakeUpFirst([g EXCEPT !.lock_holder = NoTask])

\* line 31, then leaving "async with self.lock", then the yield of throttle()
StampAndYield(g, t) ==
    LockRelease([g EXCEPT !.prev_request_time = g.last_request_time,
                          !.last_request_time = now,
                          !.grants = Append(@, t),
                          !.pc[t] = "body"])

\* lines 27-31 with the lock held: no sleep before the first request,
\* otherwise asyncio.sleep(max(0, interval - elapsed))
LockedSection(g, t) ==
    IF g.last_request_time = NoTime
    THEN StampAndYield(g, t)
    ELSE LET elapsed == now - g.last_request_time
         IN  [g EXCEPT !.pc[t] = "sleep",
                       !.wake[t] = now + Max(0, interval - elapsed)]

\* a lock that is always free to take
LockBusyNever(g) == FALSE

\* Lock.acquire() has to wait: the lock is locked, or a waiter's future is not
\* cancelled
LockBusy(g) ==
    \/ g.lock_holder # NoTask
    \/ \E i \in DOMAIN g.lock_waiters : g.pc[g.lock_waiters[i]] # "lock_cancelling"

\* wait_for_interval, from "async with self.lock"
WaitForInterval(g, t) ==
    IF LockBusy(g)
    THEN [g EXCEPT !.lock_waiters = Append(@, t), !.pc[t] = "lock_wait"]
    ELSE LockedSection([g EXCEPT !.lock_holder = t], t)

\* throttle() from its first line: semaphore.acquire(), then the try block
Throttle(g, t) ==
    LET g0 == [g EXCEPT !.arrivals = Append(@, t)]
    IN  IF SemLocked(g0)
        THEN [g0 EXCEPT !.sem_waiters = Append(@, t), !.pc[t] = "sem_wait"]
        ELSE WaitForInterval([g0 EXCEPT !.sem_value = @ - 1,
                                        !.acquired[t] = @ + 1], t)

\* the body raises and no finally clause releases the slot
LeaveBodyNoFinally(g, t, how) ==
    IF how = "returned"
    THEN SemRelease([g EXCEPT !.pc[t] = how], t)
    ELSE [g EXCEPT !.pc[t] = how]

\* the finally clause of throttle(): the body returned or raised
LeaveBody(g, t, how) == SemRelease([g EXCEPT !.pc[t] = how], t)

\* A task calls throttle().  The tasks run the same code, so they are numbered
\* in the order of their calls.
Enter(t) ==
    /\ pc[t] = "idle"
    /\ \A u \in 1..(t - 1) : pc[u] # "idle"
    /\ SetGate(Throttle(Gate, t))
    /\ UNCHANGED <<interval, concurrency_limit, now, notGate>>

\* A waiter that was given a slot resumes in semaphore.acquire().  The loop
\* runs the woken waiters in the order their futures were resolved, which is
\* their order in the queue.
SemResume(t) ==
    /\ pc[t] = "sem_granted"
    /\ t = Head(SelectSeq(sem_waiters, LAMBDA x : pc[x] = "sem_granted"))
    /\ LET g1 == [Gate EXCEPT !.sem_waiters = Remove(@, t), !.acquired[t] = @ + 1]
           g2 == IF g1.sem_value > 0 THEN SemWakeUpNext(g1) ELSE g1
       IN  SetGate(WaitForInterval(g2, t))
    /\ UNCHANGED <<interval, concurrency_limit, now, notGate>>

\* A woken waiter resumes in Lock.acquire(): it leaves the queue and locks.
LockResume(t) ==
    /\ pc[t] = "lock_granted"
    /\ SetGate(LockedSection([Gate EXCEPT !.lock_waiters = Remove(@, t),
                                          !.lock_holder = t], t))
    /\ UNCHANGED <<interval, concurrency_limit, now, notGate>>

\* asyncio.sleep returns, not before its delay has passed.
Wake(t) ==
    /\ pc[t] = "sleep"
    /\ now >= wake[t]
    /\ SetGate(StampAndYield(Gate, t))
    /\ UNCHANGED <<interval, concurrency_limit, now, notGate>>

\* The throttled body completes.
BodyReturns(t) ==
    /\ pc[t] = "body"
    /\ SetGate(LeaveBody(Gate, t, "returned"))
    /\ UNCHANGED <<interval, concurrency_limit, now, notGate>>

\* The throttled body raises (a failed request, or the task is cancelled in it).
BodyRaises(t) ==
    /\ pc[t] = "body"
    /\ SetGate(LeaveBody(Gate, t, "raised"))
    /\ UNCHANGED <<interval, concurrency_limit, now, notGate>>

\* task.cancel() while the task waits for a slot: its future is cancelled at
\* once and stays queued; CancelledError is delivered at the task's next turn.
CancelInAcquire(t) ==
    /\ pc[t] = "sem_wait"
    /\ SetGate([Gate EXCEPT !.pc[t] = "sem_cancelling"])
    /\ UNCHANGED <<interval, concurrency_limit, now, notGate>>

\* CancelledError is delivered in semaphore.acquire(), before the try block:
\* the future leaves the queue, and a slot already given to the task (it was
\* woken before it was cancelled) is passed on.
RaiseInAcquire(t) ==
    /\ pc[t] \in {"sem_cancelling", "sem_granted"}
    /\ pc[t] = "sem_granted" =>
          t = Head(SelectSeq(sem_waiters, LAMBDA x : pc[x] = "sem_granted"))
    /\ LET g1 == [Gate EXCEPT !.sem_waiters = Remove(@, t), !.pc[t] = "cancelled"]
       IN  SetGate(IF pc[t] = "sem_granted"
                   THEN SemWakeUpNext([g1 EXCEPT !.sem_value = @ + 1])
                   ELSE g1)
    /\ UNCHANGED <<interval, concurrency_limit, now, notGate>>

\* task.cancel() while the task is queued on the lock: its future is cancelled
\* at once and stays queued; CancelledError is delivered at the task's next turn.
CancelInWait(t) ==
    /\ pc[t] = "lock_wait"
    /\ SetGate([Gate EXCEPT !.pc[t] = "lock_cancelling"])
    /\ UNCHANGED <<interval, concurrency_limit, now, notGate>>

\* CancelledError is delivered in wait_for_interval (the pacing wait is
\* interrupted).  In Lock.acquire() the future leaves the queue and, the lock
\* being unlocked, the first waiter is woken; in the sleep the lock is
\* released.  Nothing is stamped, and the finally clause releases the slot.
RaiseInWait(t) ==
    /\ pc[t] \in {"lock_cancelling", "lock_granted", "sleep"}
    /\ LET g1 == [Gate EXCEPT !.pc[t] = "cancelled"]
           g2 == IF pc[t] = "sleep"
                 THEN LockRelease(g1)
                 ELSE LET g3 == [g1 EXCEPT !.lock_waiters = Remove(@, t)]
                      IN  IF g3.lock_holder = NoTask
                          THEN LockWakeUpFirst(g3)
                          ELSE g3
       IN  SetGate(SemRelease(g2, t))
    /\ UNCHANGED <<interval, concurrency_limit, now, notGate>>

\* The loop's clock advances: up to MaxTime on its own, and as far as a
\* pending asyncio.sleep needs.
Tick ==
    /\ now < MaxTime \/ \E t \in Tasks : pc[t] = "sleep" /\ now < wake[t]
    /\ now' = now + 1
    /\ UNCHANGED <<interval, concurrency_limit, sem_value, sem_waiters,
                   lock_holder, lock_waiters, last_request_time,
                   prev_request_time, pc, wake, acquired, released, arrivals,
                   grants, notGate>>

\* RateLimiter.__init__, and tasks that have not called throttle() yet
GateInit ==
    /\ interval \in 1..MaxInterval
    /\ concurrency_limit \in 1..MaxConcurrency
    /\ sem_value = concurrency_limit
    /\ sem_waiters = <<>>
    /\ lock_holder = NoTask
    /\ lock_waiters = <<>>
    /\ last_request_time = NoTime
    /\ prev_request_time = NoTime
    /\ now = 0
    /\ pc = [t \in Tasks |-> "idle"]
    /\ wake = [t \in Tasks |-> 0]
    /\ acquired = [t \in Tasks |-> 0]
    /\ released = [t \in Tasks |-> 0]
    /\ arrivals = <<>>
    /\ grants = <<>>

GateIdle ==
    /\ interval = 1
    /\ concurrency_limit = 1
    /\ sem_value = 1
    /\ sem_waiters = <<>>
    /\ lock_holder = NoTask
    /\ lock_waiters = <<>>
    /\ last_request_time = NoTime
    /\ prev_request_time = NoTime
    /\ now = 0
    /\ pc = <<>>
    /\ wake = <<>>
    /\ acquired = <<>>
    /\ released = <<>>
    /\ arrivals = <<>>
    /\ grants = <<>>

GateNext ==
    \/ \E t \in Tasks : Enter(t)
    \/ \E t \in Tasks : SemResume(t)
    \/ \E t \in Tasks : LockResume(t)
    \/ \E t \in Tasks : Wake(t)
    \/ \E t \in Tasks : BodyReturns(t)
    \/ \E t \in Tasks : BodyRaises(t)
    \/ \E t \in Tasks : CancelInAcquire(t)
    \/ \E t \in Tasks : RaiseInAcquire(t)
    \/ \E t \in Tasks : CancelInWait(t)
    \/ \E t \in Tasks : RaiseInWait(t)
    \/ Tick

----------------------------------------------------------------------------
(* _combine_csv_strings.  A string is a sequence of characters, a row a      *)
(* sequence of fields, a field a string.  csv.reader and csv.writer are       *)
(* modelled on text without quote characters.                                 *)

\* Iterating StringIO(csv_string): the lines, each ending after its "\n",
\* the last one possibly without
RECURSIVE Lines(_, _)
Lines(text, line) ==
    IF text = <<>> THEN (IF line = <<>> THEN <<>> ELSE <<line>>)
    ELSE IF Head(text) = "\n"
         THEN <<Append(line, "\n")>> \o Lines(Tail(text), <<>>)
         ELSE Lines(Tail(text), Append(line, Head(text)))

\* a line without the "\r" and "\n" characters that end it
RECURSIVE StripLineEnd(_)
StripLineEnd(line) ==
    IF line # <<>> /\ line[Len(line)] \in {"\r", "\n"}
    THEN StripLineEnd(SubSeq(line, 1, Len(line) - 1))
    ELSE line

\* the fields of a non-empty line: split at the delimiter
RECURSIVE SplitFields(_, _)
SplitFields(text, field) ==
    IF text = <<>> THEN <<field>>
    ELSE IF Head(text) = ","
         THEN <<field>> \o SplitFields(Tail(text), <<>>)
         ELSE SplitFields(Tail(text), Append(field, Head(text)))

\* csv.reader on one line: a blank line is a row without fields
ReadRow(line) ==
    LET content == StripLineEnd(line)
    IN  IF content = <<>> THEN <<>> ELSE SplitFields(content, <<>>)

\* list(csv.reader(StringIO(text)))
CsvReader(text) ==
    LET lines == Lines(text, <<>>)
    IN  [i \in DOMAIN lines |-> ReadRow(lines[i])]

\* the fields of a row joined by the delimiter
RECURSIVE JoinFields(_)
JoinFields(row) ==
    IF row = <<>> THEN <<>>
    ELSE IF Len(row) = 1 THEN Head(row)
         ELSE Head(row) \o <<",">> \o JoinFields(Tail(row))

\* csv.writer(...).writerows(rows): each row ends with "\r\n"
CsvWriter(rows) ==
    Concat([i \in DOMAIN rows |-> JoinFields(rows[i]) \o <<"\r", "\n">>])

\* later fragments extended whole, their header rows kept
KeptRowsWithHeader(rows, i) == rows

\* the rows output.extend takes from fragment i (enumerate counts from 0):
\* all rows of the first fragment, the rows after row 0 of the others
KeptRows(rows, i) ==
    IF i = 0 THEN rows
    ELSE IF rows = <<>> THEN <<>> ELSE Tail(rows)

_combine_csv_strings(strings) ==
    CsvWriter(Concat([k \in DOMAIN strings |->
                         KeptRows(CsvReader(strings[k]), k - 1)]))

\* fragments as a server sends them: "a,a\na\n", "a\na" (no final newline),
\* "a\n\n,a\n" (a blank line, an empty field), "a,\n,a\na,a"
SampleFragments ==
    { <<"a", ",", "a", "\n", "a", "\n">>,
      <<"a", "\n", "a">>,
      <<"a", "\n", "\n", ",", "a", "\n">>,
      <<"a", ",", "\n", ",", "a", "\n", "a", ",", "a">> }

\* the sample fragments and every short string
Fragments == SampleFragments \cup SeqsUpTo(FragmentChars, MaxFragmentLen)

CsvInit ==
    /\ csv_strings \in UNION {[1..n -> Fragments] : n \in 0..MaxFragments}
    /\ csv_result = <<>>
    /\ csvPc = "start"

CsvIdle ==
    /\ csv_strings = <<>>
    /\ csv_result = <<>>
    /\ csvPc = "idle"

CombineCsvStrings ==
    /\ csvPc = "start"
    /\ csv_result' = _combine_csv_strings(csv_strings)
    /\ csvPc' = "returned"
    /\ UNCHANGED <<csv_strings, notCsv>>

----------------------------------------------------------------------------
(* _construct_query, _get_queries and the fetch loop of get_all_data *)

\* str(value) of a value code, a non-negative integer
RECURSIVE Str(_)
Str(n) ==
    LET digit == <<"0", "1", "2", "3", "4", "5", "6", "7", "8", "9">>[(n % 10) + 1]
    IN  IF n < 10 THEN <<digit>> ELSE Append(Str(n \div 10), digit)

\* the payload's selection: one entry per variable of the configuration
_construct_query(request_config) ==
    [v \in DOMAIN request_config |->
        [variableCode |-> v,
         valueCodes |-> [j \in DOMAIN request_config[v] |-> Str(request_config[v][j])]]]

_get_queries(vars, lim) ==
    LET opt == _find_optimal_combination(vars, lim)
        request_configs_ == _generate_all_combinations(vars, opt.sizes)
    IN  IF opt.raised
        THEN [raised |-> TRUE, queries |-> <<>>]
        ELSE [raised |-> FALSE,
              queries |-> [i \in DOMAIN request_configs_ |->
                              _construct_query(request_configs_[i])]]

\* format not in valid_formats
FormatsOffered == {"csv2", "json-stat2", "unknown"}
ValidFormats == {"csv2", "json-stat2"}

\* "csv" in format
IsCsv(fmt) == fmt = "csv2"

\* How SESSION.post can end: with a table, with a non-success status and an
\* error body, with a success status and a malformed body, or by raising
\* (timeout, connection error).
PostOutcomes == {"ok", "bad_status", "malformed", "raises"}

\* The table the service sends for a payload: a header row of the variable
\* codes and one row per cell of the selection.
TableFor(query) ==
    LET codes == [v \in DOMAIN query |-> Str(query[v].variableCode)]
        cells == IterProduct([v \in DOMAIN query |-> query[v].valueCodes])
        line(row) == JoinFields(row) \o <<"\n">>
    IN  line(codes) \o Concat([i \in DOMAIN cells |-> line(cells[i])])

\* response.text for an outcome that does not raise
ResponseText(outcome, query) ==
    CASE outcome = "ok" -> TableFor(query)
      [] outcome = "bad_status" -> <<"E", "\n">>
      [] outcome = "malformed" -> <<"<">>

\* lines 448-449: whatever post returns is appended; only a raising post
\* ends the fetch
AppendsResponse(outcome) == outcome # "raises"

\* a loop that takes the first query every time
NextQueryFirst(qs, collected) == qs[1]

\* for query in queries: the query of the iteration entered with the responses
\* collected so far
NextQuery(qs, collected) == qs[Len(collected) + 1]

\* lines 418-434: the format is validated, the limit and the interval are read
\* from the configuration, the first stamp is taken, the queries are built
\* (which takes some time)
FetchStart ==
    /\ fetchPc = "start"
    /\ IF format \notin ValidFormats \/ _get_queries(variables, limit).raised
       THEN /\ fetchPc' = "raised"
            /\ UNCHANGED <<queries, fetch_last_request_time, clock,
                           optimal_batch_sizes>>
       ELSE /\ queries' = _get_queries(variables, limit).queries
            /\ optimal_batch_sizes' =
                   _find_optimal_combination(variables, limit).sizes
            /\ fetch_last_request_time' = clock
            /\ \E took \in 0..MaxDelay : clock' = clock + took
            /\ fetchPc' = IF _get_queries(variables, limit).queries = <<>>
                          THEN "finish" ELSE "pace"
    /\ UNCHANGED <<format, min_request_interval, data, fetch_prev_request_time,
                   fetch_result, posted, outcomes, variables, limit,
                   request_configs, cfgPc, splitVars, gateVars, csvVars>>

\* a loop that stamps without sleeping
PacedStampNoSleep(current_time, last, min_interval, late) == current_time

\* lines 443-446: the time of the stamp taken after time.sleep for the rest of
\* the interval; the sleep may end late
PacedStamp(current_time, last, min_interval, late) ==
    LET elapsed == current_time - last
    IN  IF elapsed < min_interval
        THEN current_time + (min_interval - elapsed) + late
        ELSE current_time

\* lines 443-446: the pacing sleep, then the stamp
FetchPace ==
    /\ fetchPc = "pace"
    /\ \E late \in 0..MaxDelay :
          LET after == PacedStamp(clock, fetch_last_request_time,
                                  min_request_interval, late)
          IN  /\ clock' = after
              /\ fetch_last_request_time' = after
    /\ fetch_prev_request_time' = fetch_last_request_time
    /\ fetchPc' = "post"
    /\ UNCHANGED <<format, min_request_interval, queries, data, fetch_result,
                   posted, outcomes, notFetch>>

\* lines 448-449: the post of the next query, taking some time
FetchPost ==
    /\ fetchPc = "post"
    /\ \E outcome \in PostOutcomes, took \in 0..MaxDelay :
          LET query == NextQuery(queries, data)
          IN  /\ posted' = Append(posted, query)
              /\ outcomes' = Append(outcomes, outcome)
              /\ clock' = clock + took
              /\ IF AppendsResponse(outcome)
                 THEN /\ data' = Append(data, ResponseText(outcome, query))
                      /\ fetchPc' = IF Len(data) + 1 < Len(queries)
                                    THEN "pace" ELSE "finish"
                 ELSE /\ fetchPc' = "raised"
                      /\ UNCHANGED data
    /\ UNCHANGED <<format, min_request_interval, queries,
                   fetch_last_request_time, fetch_prev_request_time,
                   fetch_result, notFetch>>

\* lines 451-454
FetchReturn ==
    /\ fetchPc = "finish"
    /\ fetch_result' = IF IsCsv(format) THEN _combine_csv_strings(data) ELSE data
    /\ fetchPc' = "returned"
    /\ UNCHANGED <<format, min_request_interval, queries, data,
                   fetch_last_request_time, fetch_prev_request_time, clock,
                   posted, outcomes, notFetch>>

\* the variables of the tables fetched (simple_variables, lines 428-432)
FetchTables ==
    UNION {[1..n -> {[j \in 1..c |-> j] : c \in 0..MaxFetchCount}] :
              n \in 0..MaxFetchDims}

\* a fetch of a table that splits into at most MaxQueries requests
FetchInit ==
    /\ variables \in FetchTables
    /\ limit \in 1..MaxFetchLimit
    /\ Len(_get_queries(variables, limit).queries) <= MaxQueries
    /\ optimal_batch_sizes = None
    /\ request_configs = None
    /\ cfgPc = "idle"
    /\ format \in FormatsOffered
    /\ min_request_interval \in 1..MaxInterval
    /\ queries = <<>>
    /\ data = <<>>
    /\ fetch_last_request_time = 0
    /\ fetch_prev_request_time = NoTime
    /\ clock = 0
    /\ fetch_result = <<>>
    /\ fetchPc = "start"
    /\ posted = <<>>
    /\ outcomes = <<>>

FetchIdle ==
    /\ format = "csv2"
    /\ min_request_interval = 1
    /\ queries = <<>>
    /\ data = <<>>
    /\ fetch_last_request_time = 0
    /\ fetch_prev_request_time = NoTime
    /\ clock = 0
    /\ fetch_result = <<>>
    /\ fetchPc = "idle"
    /\ posted = <<>>
    /\ outcomes = <<>>

----------------------------------------------------------------------------
vars == <<optVars, splitVars, gateVars, csvVars, fetchVars>>

Init == OptInit /\ SplitIdle /\ GateIdle /\ CsvIdle /\ FetchIdle
Next == GetRequestConfigs
Spec == Init /\ [][Next]_vars

SplitSpecInit == SplitInit /\ OptIdle /\ GateIdle /\ CsvIdle /\ FetchIdle
SplitNext == SplitIntoBatches
SpecSplit == SplitSpecInit /\ [][SplitNext]_vars

GateSpecInit == GateInit /\ OptIdle /\ SplitIdle /\ CsvIdle /\ FetchIdle
SpecGate == GateSpecInit /\ [][GateNext]_vars

\* The event loop runs every callback that is ready (a woken waiter, a sleep
\* whose delay has passed, a task whose future was cancelled), its clock
\* advances, and every throttled body ends.  Nothing obliges a task to call
\* throttle() or to be cancelled.
GateFairness ==
    /\ WF_vars(Tick)
    /\ \A t \in Tasks :
          /\ WF_vars(SemResume(t))
          /\ WF_vars(LockResume(t))
          /\ WF_vars(Wake(t))
          /\ WF_vars(pc[t] = "sem_cancelling" /\ RaiseInAcquire(t))
          /\ WF_vars(pc[t] = "lock_cancelling" /\ RaiseInWait(t))
          /\ WF_vars(BodyReturns(t) \/ BodyRaises(t))

SpecGateFair == GateSpecInit /\ [][GateNext]_vars /\ GateFairness

CsvSpecInit == CsvInit /\ OptIdle /\ SplitIdle /\ GateIdle /\ FetchIdle
CsvNext == CombineCsvStrings
SpecCsv == CsvSpecInit /\ [][CsvNext]_vars

FetchSpecInit == FetchInit /\ SplitIdle /\ GateIdle /\ CsvIdle
FetchNext == FetchStart \/ FetchPace \/ FetchPost \/ FetchReturn
SpecFetch == FetchSpecInit /\ [][FetchNext]_vars

----------------------------------------------------------------------------
(* Properties of the optimizer, the splitter and the enumerator *)

Counts == [v \in DOMAIN variables |-> Len(variables[v])]

AllCountsPositive == \A v \in DOMAIN variables : Len(variables[v]) >= 1

\* number of requests an assignment of batch sizes leads to
RequestCount(counts, sizes) ==
    Prod([v \in DOMAIN counts |-> Ceil(counts[v], sizes[v])])

\* the assignments with 1 <= size_i <= count_i and product of sizes <= limit
FeasibleSizes ==
    {sizes \in [DOMAIN variables -> 1..MaxCount] :
        /\ \A v \in DOMAIN variables : sizes[v] <= Len(variables[v])
        /\ Prod(sizes) <= limit}

\* C1: the assignment returned by _find_optimal_combination has the minimal
\* request count: no feasible assignment needs strictly fewer requests.
C1_MinimalRequestCount ==
    (cfgPc = "returned" /\ AllCountsPositive) =>
        \A sizes \in FeasibleSizes :
            RequestCount(Counts, sizes) >= RequestCount(Counts, optimal_batch_sizes)

\* C2: with all counts >= 1 and limit >= number of dimensions, the returned
\* sizes have a product <= limit and each lies in 1..count.
C2_AssignmentFeasible ==
    (cfgPc = "returned" /\ AllCountsPositive /\ limit >= Len(variables)) =>
        /\ DOMAIN optimal_batch_sizes = DOMAIN variables
        /\ Prod(optimal_batch_sizes) <= limit
        /\ \A v \in DOMAIN variables :
              /\ 1 <= optimal_batch_sizes[v]
              /\ optimal_batch_sizes[v] <= Len(variables[v])

\* the search ran (more cells than the limit) over two or more dimensions and
\* returned sizes that split a dimension
C2_Witness ==
    /\ cfgPc = "returned"
    /\ Len(variables) >= 2
    /\ limit >= Len(variables)
    /\ total_rows(variables) > limit
    /\ \E v \in DOMAIN variables :
          optimal_batch_sizes[v] > 1 /\ optimal_batch_sizes[v] < Len(variables[v])
    /\ Prod(optimal_batch_sizes) <= limit

\* the cells of the full cross-product: one value per dimension
Cells == {cell \in [DOMAIN variables -> 1..MaxCount] :
             \A v \in DOMAIN variables : cell[v] \in Range(variables[v])}

Covers(configuration, cell) ==
    \A v \in DOMAIN cell : cell[v] \in Range(configuration[v])

\* C3: the request configurations cover the cross-product exactly once: each
\* cell lies in exactly one configuration, and a configuration holds only
\* values of its dimensions.
C3_CoverageExactlyOnce ==
    cfgPc = "returned" =>
        /\ \A cell \in Cells :
              Cardinality({i \in DOMAIN request_configs :
                              Covers(request_configs[i], cell)}) = 1
        /\ \A i \in DOMAIN request_configs :
              /\ DOMAIN request_configs[i] = DOMAIN variables
              /\ \A v \in DOMAIN variables :
                    Range(request_configs[i][v]) \subseteq Range(variables[v])

\* several configurations over two or more dimensions, one batch shorter than
\* the chosen size
C3_Witness ==
    /\ cfgPc = "returned"
    /\ Len(variables) >= 2
    /\ Len(request_configs) >= 4
    /\ \E i \in DOMAIN request_configs : \E v \in DOMAIN variables :
          Len(request_configs[i][v]) < optimal_batch_sizes[v]

\* C4: _split_into_batches returns ceil(n/s) batches, all of length s but the
\* last of length n - s*(k-1), and their concatenation is the input.
C4_SplitPartition ==
    splitPc = "returned" =>
        LET n == Len(values)
            s == batch_size
            k == Len(batches)
        IN  /\ k * s >= n
            /\ (k - 1) * s < n \/ (n = 0 /\ k = 0)
            /\ \A i \in 1..(k - 1) : Len(batches[i]) = s
            /\ k >= 1 => Len(batches[k]) = n - s * (k - 1)
            /\ Concat(batches) = values

\* a split into several batches whose last batch is shorter
C4_Witness ==
    /\ splitPc = "returned"
    /\ Len(batches) >= 2
    /\ Len(batches[Len(batches)]) < batch_size
    /\ Concat(batches) = values

\* C11: when a dimension has zero values, _find_optimal_combination returns
\* without raising and no request configurations are produced.
C11_ZeroDimensionReturnsEmpty ==
    (cfgPc # "start" /\ \E v \in DOMAIN variables : Len(variables[v]) = 0) =>
        /\ cfgPc = "returned"
        /\ request_configs = <<>>

\* C12 as stated: with limit smaller than the number of dimensions the
\* optimizer fails and returns no assignment; an assignment that is returned
\* names every dimension and has a size product <= limit.
C12_SmallLimitFailsFast ==
    /\ (cfgPc # "start" /\ limit < Len(variables)) => cfgPc = "raised"
    /\ cfgPc = "returned" =>
          /\ DOMAIN optimal_batch_sizes = DOMAIN variables
          /\ Prod(optimal_batch_sizes) <= limit

\* C12, amended: with limit smaller than the number of dimensions and every
\* dimension holding a value, the optimizer does not fail: it returns sizes in
\* 1..count for every dimension with a product <= limit.  Whatever the input,
\* a returned assignment names every dimension and has a product <= limit.
C12_SmallLimitStillAssigned ==
    /\ (cfgPc # "start" /\ limit < Len(variables) /\ AllCountsPositive) =>
          /\ cfgPc = "returned"
          /\ \A v \in DOMAIN variables :
                /\ 1 <= optimal_batch_sizes[v]
                /\ optimal_batch_sizes[v] <= Len(variables[v])
    /\ cfgPc = "returned" =>
          /\ DOMAIN optimal_batch_sizes = DOMAIN variables
          /\ Prod(optimal_batch_sizes) <= limit

\* three dimensions under a limit of two: the search ran and returned sizes
\* that put two values of one dimension into a request
C12_Witness ==
    /\ cfgPc = "returned"
    /\ limit < Len(variables)
    /\ AllCountsPositive
    /\ total_rows(variables) > limit
    /\ \E v \in DOMAIN variables : optimal_batch_sizes[v] > 1
    /\ Prod(optimal_batch_sizes) <= limit

----------------------------------------------------------------------------
(* Properties of the RateLimiter *)

\* C5: successive grants (the values stamped into last_request_time) are at
\* least interval apart, measured from the previous grant.
C5_GrantsSpaced ==
    prev_request_time # NoTime =>
        last_request_time - prev_request_time >= interval

\* a grant exactly interval after the previous one, made while the previously
\* granted request is still in its body (it has not completed)
C5_Witness ==
    /\ prev_request_time # NoTime
    /\ last_request_time - prev_request_time = interval
    /\ now = last_request_time
    /\ Cardinality({t \in Tasks : pc[t] = "body"}) >= 2

\* the tasks between acquiring the semaphore and releasing it
SlotHolders ==
    {t \in Tasks : pc[t] \in {"sem_granted", "lock_wait", "lock_granted",
                              "lock_cancelling",
                              "sleep", "body"}}

\* C6: at no instant do more than concurrency_limit tasks hold a slot.
C6_SlotsBounded == Cardinality(SlotHolders) <= concurrency_limit

\* every slot is held while another task waits for one
C6_Witness ==
    /\ Cardinality(SlotHolders) = concurrency_limit
    /\ concurrency_limit >= 2
    /\ \E t \in Tasks : pc[t] = "sem_wait"

Left(t) == pc[t] \in {"returned", "raised", "cancelled"}

\* C7: a slot is released once per acquisition, however the task leaves
\* throttle(); when all tasks have left, all slots are free again.
C7_ReleasedExactlyOnce ==
    /\ \A t \in Tasks :
          /\ released[t] <= acquired[t]
          /\ Left(t) => released[t] = acquired[t]
    /\ sem_value >= 0 /\ sem_value <= concurrency_limit
    /\ (\A t \in Tasks : Left(t)) => sem_value = concurrency_limit

\* all tasks have left: one from a body that raised, one from an interrupted
\* pacing wait, one normally
C7_Witness ==
    /\ \A t \in Tasks : Left(t)
    /\ \E t \in Tasks : pc[t] = "raised" /\ released[t] = 1
    /\ \E t \in Tasks : pc[t] = "cancelled" /\ released[t] = 1
    /\ \E t \in Tasks : pc[t] = "returned" /\ released[t] = 1
    /\ sem_value = concurrency_limit

\* the tasks inside throttle() that have not been stamped yet
Waiting(t) ==
    pc[t] \in {"sem_wait", "sem_cancelling", "sem_granted", "lock_wait",
              "lock_cancelling", "lock_granted", "sleep"}

\* the task was stamped and let into its body
Granted(t) == \E i \in DOMAIN grants : grants[i] = t

\* position of task t in the order of calls to throttle()
Arrival(t) == CHOOSE i \in DOMAIN arrivals : arrivals[i] = t

\* the tasks were stamped in the order they called throttle()
GrantsInArrivalOrder ==
    \A i, j \in DOMAIN grants :
        i < j => Arrival(grants[i]) < Arrival(grants[j])

\* C13: grants are given in arrival order (a task that called throttle()
\* earlier is never granted after one that called it later), and when every
\* body terminates each task that entered throttle() is eventually granted,
\* unless it is itself cancelled while it waits.
C13_NoStarvationFifo ==
    /\ []GrantsInArrivalOrder
    /\ \A t \in Tasks : Waiting(t) ~> (Granted(t) \/ pc[t] = "cancelled")

\* all tasks were granted, the last two after waiting for a slot behind the
\* first, and the last one after a pacing sleep
C13_Witness ==
    /\ Len(grants) = NumTasks
    /\ grants = arrivals
    /\ concurrency_limit = 1
    /\ \A t \in Tasks : pc[t] \in {"body", "returned", "raised"}
    /\ last_request_time - prev_request_time = interval

----------------------------------------------------------------------------
(* Properties of the combiner *)

\* every fragment has a header row
AllHaveHeader == \A k \in DOMAIN csv_strings : CsvReader(csv_strings[k]) # <<>>

\* the data rows of all fragments, in fragment order
DataRows(strings) ==
    Concat([k \in DOMAIN strings |-> Tail(CsvReader(strings[k]))])

\* C8: the combined table is the first fragment's header row followed by the
\* data rows of all fragments in order; combining [A,B,C] gives the data rows
\* of combining [A,B] followed by C's data rows.
C8_HeaderThenAllDataRows ==
    (csvPc = "returned" /\ csv_strings # <<>> /\ AllHaveHeader) =>
        LET table == CsvReader(csv_result)
            n == Len(csv_strings)
        IN  /\ table = <<Head(CsvReader(csv_strings[1]))>> \o DataRows(csv_strings)
            /\ n >= 2 =>
                  Tail(table) =
                      Tail(CsvReader(_combine_csv_strings(SubSeq(csv_strings, 1, n - 1))))
                      \o Tail(CsvReader(csv_strings[n]))

\* three fragments, each with a header (with a field in it) and a data row
C8_Witness ==
    /\ csvPc = "returned"
    /\ Len(csv_strings) = 3
    /\ \A k \in DOMAIN csv_strings :
          /\ Len(CsvReader(csv_strings[k])) >= 2
          /\ CsvReader(csv_strings[k])[1] # <<>>
    /\ Len(CsvReader(csv_result)) = 1 + Len(DataRows(csv_strings))

\* C10: combining an empty sequence of fragments fails; it does not return.
C10_EmptyInputFails ==
    csvPc = "returned" => csv_strings # <<>>

----------------------------------------------------------------------------
(* Properties of the fetch loop *)

\* per dimension, the number of batches its values are split into by the
\* sizes the optimizer chose
BatchCounts ==
    [v \in DOMAIN variables |->
        Ceil(Len(variables[v]), optimal_batch_sizes[v])]

\* how many configurations pass before dimension v moves to its next batch
Stride(counts, v) == Prod(SubSeq(counts, v + 1, Len(counts)))

\* the batch (from 0) of dimension v in the i-th configuration when the last
\* dimension varies fastest
BatchIndex(counts, i, v) == ((i - 1) \div Stride(counts, v)) % counts[v]

\* the values of dimension v in the i-th configuration
ExpectedValues(sizes, counts, i, v) ==
    LET lo == BatchIndex(counts, i, v) * sizes[v] + 1
        hi == Min(lo + sizes[v] - 1, Len(variables[v]))
    IN  [j \in 1..(hi - lo + 1) |-> variables[v][lo + j - 1]]

\* the payload selecting the i-th configuration
ExpectedQuery(sizes, counts, i) ==
    [v \in DOMAIN variables |->
        LET expected == ExpectedValues(sizes, counts, i, v)
        IN  [variableCode |-> v,
             valueCodes |-> [j \in DOMAIN expected |-> Str(expected[j])]]]

\* C14: the requests are issued one after another, the i-th request being the
\* i-th configuration in the enumerator's order (dimensions in insertion order,
\* the last varying fastest); the i-th fragment collected is the response to
\* the i-th request; a fetch that completes has issued exactly one request per
\* configuration.
C14_OneRequestPerConfigurationInOrder ==
    LET sizes == optimal_batch_sizes
        counts == BatchCounts
    IN  /\ \A i \in DOMAIN posted : posted[i] = ExpectedQuery(sizes, counts, i)
        /\ Len(data) <= Len(posted) /\ Len(posted) <= Len(data) + 1
        /\ \A i \in DOMAIN data : data[i] = ResponseText(outcomes[i], posted[i])
        /\ fetchPc = "returned" =>
              /\ Len(posted) = Prod(counts)
              /\ Len(data) = Len(posted)

\* a completed fetch of a table of two dimensions in four requests, all answered
\* with a table, the fragments combined
C14_Witness ==
    /\ fetchPc = "returned"
    /\ Len(variables) = 2
    /\ Len(posted) = 4
    /\ \A v \in DOMAIN variables : BatchCounts[v] = 2
    /\ \A i \in DOMAIN outcomes : outcomes[i] = "ok"
    /\ IsCsv(format)
    /\ fetch_result = _combine_csv_strings(data)

\* C15: each stamp taken in the loop, at which the sub-request starts, is at
\* least min_request_interval after the stamp it replaces (for the first
\* sub-request, the stamp taken when the fetch began), and the stamp never
\* decreases.
C15_RequestsSpaced ==
    /\ [](/\ fetch_prev_request_time # NoTime =>
                fetch_last_request_time - fetch_prev_request_time
                    >= min_request_interval
          /\ fetchPc = "post" => clock = fetch_last_request_time)
    /\ [][fetch_last_request_time' >= fetch_last_request_time]_vars

\* the second sub-request starts exactly min_request_interval after the first,
\* which was answered quicker than that
C15_Witness ==
    /\ fetchPc = "post"
    /\ Len(posted) = 1
    /\ fetch_prev_request_time > 0
    /\ fetch_last_request_time - fetch_prev_request_time = min_request_interval

\* C9: if the transport fails on any sub-request (it raises, answers with a
\* non-success status or with a malformed body), get_all_data does not return.
C9_FailureFailsFetch ==
    fetchPc = "returned" => \A i \in DOMAIN outcomes : outcomes[i] = "ok"

====
